---- MODULE Spec2Model ----
(***************************************************************************)
(* Vulnerability policy and resilience engine of the container-scanning    *)
(* pipeline: the retry-with-backoff decorator and the circuit breaker of   *)
(* src/scanner/retry_handler.py and the exception ledger and scan-result   *)
(* filter of src/scanner/exception_manager.py.                             *)
(*                                                                         *)
(* Eleven specifications share the variables:                              *)
(*   SpecRetry     one call of a retry_with_backoff wrapper                *)
(*   SpecBreaker   one caller using CircuitBreaker.call on a retry-wrapped *)
(*                 operation (breaker outside, retry inside)               *)
(*   SpecThreads   several threads calling one CircuitBreaker instance     *)
(*   SpecFilter    the exception ledger and filter_scan_results            *)
(*   SpecLedger    the exception ledger alone                              *)
(*   SpecFaults    the ledger over a file written from outside             *)
(*   SpecShared    several processes with a store each over one file       *)
(*   SpecPolicy    one run of threshold_checker.py                         *)
(*   SpecRecovery  calls that keep arriving at one CircuitBreaker          *)
(*   SpecGate      a scan filtered and then checked against a policy       *)
(*   SpecScheduler start and stop of one RescanScheduler                   *)
(* Each leaves the variables of the other parts at their initial values.   *)
(***************************************************************************)
EXTENDS Integers, Sequences, FiniteSets, TLC

VARIABLES
    \* CircuitBreaker fields (retry_handler.py:57-62)
    state, failure_count, last_failure_time, failure_threshold, recovery_timeout,
    \* time.time(), in whole seconds
    now,
    \* the single caller of SpecBreaker: where it is in CircuitBreaker.call, how
    \* its last call ended, and how many calls it has started
    b_pc, b_result, b_calls,
    \* retry_with_backoff parameters and the wrapper's locals (retry_handler.py:13-49)
    max_retries, initial_delay, backoff_factor, max_delay,
    r_pc, attempt, delay, last_exception, r_raised, r_returned,
    \* history of one wrapper call: outcome of every invocation of func, and the
    \* argument of every time.sleep
    outcomes, sleeps,
    \* the cancellation signal of the wrapper's caller: set while a call is in
    \* progress by whoever wants it aborted
    cancel_requested,
    \* SpecThreads: each thread's position in CircuitBreaker.call, the value of
    \* failure_count it has loaded for +=, and whether it runs func as a probe
    t_pc, t_reg, t_probe,
    \* ExceptionManager.exceptions, the exception file on disk, the scan result
    \* handed to filter_scan_results, the image it was called with and what it
    \* returned
    exceptions, exception_file, scan_results, filter_image, filtered_results,
    \* the last operation completed on the store today, with its arguments
    last_op,
    \* SpecShared: processes that each construct a store over the one file. Where
    \* each is, the ledger of its store, the ledger it loaded, the ledgers that
    \* have been written to the file in whole, and the process that closed the
    \* file last
    p_pc, p_exceptions, p_loaded, committed, last_closed,
    \* SpecPolicy: ThresholdChecker.thresholds, scan_summary the severity_summary of the
    \* scan results main loads, what check returns and the exit code of main
    thresholds, scan_summary, check_results, exit_code,
    \* SpecScheduler: RescanScheduler.running and RescanScheduler.thread, where
    \* each thread that start may spawn is in run_scheduler, where the caller is
    \* in stop, the caller's last call, and the threads stop has been called on
    sch_running, sch_thread, l_pc, s_pc, s_last, stopped

breakerVars == <<state, failure_count, last_failure_time, failure_threshold, recovery_timeout>>
callerVars  == <<b_pc, b_result, b_calls>>
retryParams == <<max_retries, initial_delay, backoff_factor, max_delay>>
retryLocals == <<r_pc, attempt, delay, last_exception, r_raised, r_returned, outcomes, sleeps>>
signalVars  == <<cancel_requested>>
threadVars  == <<t_pc, t_reg, t_probe>>
procVars    == <<p_pc, p_exceptions, p_loaded, committed, last_closed>>
filterVars  == <<exceptions, exception_file, scan_results, filter_image, filtered_results, last_op,
                 procVars>>

policyVars  == <<thresholds, scan_summary, check_results, exit_code>>
schedVars   == <<sch_running, sch_thread, l_pc, s_pc, s_last, stopped>>

vars == <<breakerVars, now, callerVars, retryParams, retryLocals, signalVars, threadVars, filterVars,
          policyVars, schedVars>>

----------------------------------------------------------------------------
(* Bounds of the model *)

MaxTime      == 9    \* no call starts after this time
MaxOpTime    == 1    \* longest run of one invocation of the wrapped operation
MaxCalls     == 7    \* calls the single caller of SpecBreaker starts
MaxThreshold == 3    \* largest failure_threshold tried
MaxRecovery  == 2    \* largest recovery_timeout tried
MaxRetries   == 3    \* largest max_retries tried
MaxInitDelay == 3    \* largest initial_delay tried
MaxFactor    == 2    \* largest backoff_factor tried
MaxMaxDelay  == 4    \* largest max_delay tried
NumThreads   == 2    \* threads of SpecThreads
MaxThreadTime == 4   \* the clock of SpecThreads stops here
NumProcs     == 2    \* processes of SpecShared
MaxCount     == 1    \* largest count in a severity_summary
MaxLoops     == 3    \* threads one RescanScheduler spawns at most

Min(a, b) == IF a < b THEN a ELSE b

\* Python's None, for the fields that hold None or a number: <<>> is None and
\* <<x>> is the number x.
None == <<>>

----------------------------------------------------------------------------
(* retry_with_backoff *)

\* The exception object raised by the k-th invocation of func (k = 1, 2, ...);
\* 0 stands for "no exception" (last_exception = None).
Exc(k) == k

\* the mutation of NextDelay that forgets the cap
NextDelayUncapped(d, factor, cap) == d * factor

\* retry_handler.py:43   delay = min(delay * backoff_factor, max_delay)
NextDelay(d, factor, cap) == Min(d * factor, cap)

\* the mutation of MoreAttempts that stops one attempt early
MoreAttemptsShort(a, retries) == a + 1 < retries

\* retry_handler.py:37   if attempt < max_retries
MoreAttempts(a, retries) == a < retries

\* The value returned by the k-th invocation of func (k = 1, 2, ...); 0 stands
\* for "nothing returned".
Result(k) == k

\* the mutation of AfterSuccess that goes on with the loop while attempts remain
AfterSuccessGoesOn(a, retries) == IF a < retries THEN "sleep" ELSE "returned"

\* retry_handler.py:33   return func(*args, **kwargs): the wrapper is left
AfterSuccess(a, retries) == "returned"

\* retry_handler.py:49   raise last_exception
Raised(last) == last

\* retry_handler.py:28-29: the wrapper is entered; its locals are fresh on every call.
WrapperEnter ==
    /\ r_pc' = "attempt"
    /\ attempt' = 0
    /\ delay' = initial_delay
    /\ last_exception' = 0
    /\ r_raised' = 0
    /\ r_returned' = 0
    /\ outcomes' = <<>>
    /\ sleeps' = <<>>

\* retry_handler.py:31-37 and 44-49: one iteration's try. func runs for d seconds
\* and returns or raises; after a failure the wrapper goes on to sleep, or, on the
\* last iteration of range(max_retries + 1), leaves the loop and raises.
RetryAttempt ==
    /\ r_pc = "attempt"
    /\ \E ok \in BOOLEAN, d \in 0..MaxOpTime :
        /\ now' = now + d
        /\ outcomes' = Append(outcomes, ok)
        /\ IF ok
           THEN /\ r_pc' = AfterSuccess(attempt, max_retries)
                /\ r_returned' = Result(Len(outcomes) + 1)
                /\ UNCHANGED <<last_exception, r_raised>>
           ELSE /\ last_exception' = Exc(Len(outcomes) + 1)
                /\ UNCHANGED r_returned
                /\ IF MoreAttempts(attempt, max_retries)
                   THEN /\ r_pc' = "sleep"
                        /\ UNCHANGED r_raised
                   ELSE /\ r_pc' = "raised"
                        /\ r_raised' = Raised(last_exception')
    /\ UNCHANGED <<attempt, delay, sleeps>>
    /\ UNCHANGED <<breakerVars, callerVars, retryParams, signalVars, threadVars, filterVars, policyVars, schedVars>>

\* retry_handler.py:42-43 and the loop's next iteration: sleep, grow the delay.
RetrySleep ==
    /\ r_pc = "sleep"
    /\ now' = now + delay
    /\ sleeps' = Append(sleeps, delay)
    /\ delay' = NextDelay(delay, backoff_factor, max_delay)
    /\ attempt' = attempt + 1
    /\ r_pc' = "attempt"
    /\ UNCHANGED <<last_exception, r_raised, r_returned, outcomes>>
    /\ UNCHANGED <<breakerVars, callerVars, retryParams, signalVars, threadVars, filterVars, policyVars, schedVars>>

\* The caller's cancellation signal is set while a backoff sequence is in progress:
\* an attempt has failed and the wrapper is about to sleep or to try again. The
\* wrapper takes no such signal and none of its steps reads one
\* (retry_handler.py:27-49).
Cancel ==
    /\ r_pc \in {"attempt", "sleep"}
    /\ Len(outcomes) >= 1
    /\ ~cancel_requested
    /\ cancel_requested' = TRUE
    /\ UNCHANGED <<breakerVars, now, callerVars, retryParams, retryLocals, threadVars, filterVars, policyVars, schedVars>>

\* A caller invokes the wrapper directly (SpecRetry).
RetryCall ==
    /\ r_pc = "idle"
    /\ WrapperEnter
    /\ UNCHANGED <<now, breakerVars, callerVars, retryParams, signalVars, threadVars, filterVars, policyVars, schedVars>>

----------------------------------------------------------------------------
(* CircuitBreaker *)

\* the mutation of Gate that lets a call through at exactly recovery_timeout
GateAtTimeout(st, lft, t, timeout) ==
    IF st = "open"
    THEN IF t - lft[1] >= timeout THEN "half-open" ELSE "raise"
    ELSE st

\* the mutation of Gate that waits one second longer
GateLate(st, lft, t, timeout) ==
    IF st = "open"
    THEN IF t - lft[1] > timeout + 1 THEN "half-open" ELSE "raise"
    ELSE st

\* retry_handler.py:67-72: the state the call goes on in, or "raise".
Gate(st, lft, t, timeout) ==
    IF st = "open"
    THEN IF t - lft[1] > timeout THEN "half-open" ELSE "raise"
    ELSE st

\* the mutation of OnSuccess that leaves a probing breaker as it is
OnSuccessStaysHalfOpen(st, count) == [state |-> st, failure_count |-> count]

\* the mutation of OnSuccess that closes after a probe without clearing the count
OnSuccessKeepsCount(st, count) ==
    IF st = "half-open"
    THEN [state |-> "closed", failure_count |-> count]
    ELSE [state |-> st, failure_count |-> count]

\* retry_handler.py:77-80: func returned.
OnSuccess(st, count) ==
    IF st = "half-open"
    THEN [state |-> "closed", failure_count |-> 0]
    ELSE [state |-> st, failure_count |-> count]

\* the mutation of OnFailure that opens one failure early
OnFailureEarly(st, count, t, threshold) ==
    [failure_count |-> count + 1,
     last_failure_time |-> <<t>>,
     state |-> IF count + 2 >= threshold THEN "open" ELSE st]

\* the mutation of OnFailure that keeps the time of the first failure
OnFailureStale(st, count, t, threshold) ==
    [failure_count |-> count + 1,
     last_failure_time |-> IF last_failure_time = None THEN <<t>> ELSE last_failure_time,
     state |-> IF count + 1 >= threshold THEN "open" ELSE st]

\* retry_handler.py:84-92: func raised at time t.
OnFailure(st, count, t, threshold) ==
    [failure_count |-> count + 1,
     last_failure_time |-> <<t>>,
     state |-> IF count + 1 >= threshold THEN "open" ELSE st]

\* the mutation of Rejected in which the rejection is raised inside the retry
\* wrapper, which treats it as a failed attempt and backs off
RejectedInsideRetry ==
    /\ b_result' = "rejected"
    /\ r_pc' = "sleep"
    /\ last_exception' = Exc(1)
    /\ attempt' = 0
    /\ delay' = initial_delay
    /\ UNCHANGED <<b_pc, state, r_raised, r_returned, outcomes, sleeps>>

\* retry_handler.py:71-72: the open breaker raises before func is entered; the
\* call is over.
Rejected ==
    /\ b_result' = "rejected"
    /\ UNCHANGED <<b_pc, state, retryLocals>>

\* retry_handler.py:64-75: the caller enters call(func), func being the retry
\* wrapper around the protected operation. An open breaker raises at once;
\* otherwise func is entered.
BreakerCall ==
    /\ b_pc = "idle"
    /\ b_calls < MaxCalls
    /\ now <= MaxTime
    /\ b_calls' = b_calls + 1
    /\ LET g == Gate(state, last_failure_time, now, recovery_timeout) IN
       IF g = "raise"
       THEN Rejected
       ELSE /\ state' = g
            /\ b_pc' = "in_func"
            /\ b_result' = "running"
            /\ WrapperEnter
    /\ UNCHANGED <<failure_count, last_failure_time, failure_threshold, recovery_timeout>>
    /\ UNCHANGED <<now, retryParams, signalVars, threadVars, filterVars, policyVars, schedVars>>

\* retry_handler.py:75-82: func returned.
BreakerReturn ==
    /\ b_pc = "in_func"
    /\ r_pc = "returned"
    /\ LET s == OnSuccess(state, failure_count) IN
        /\ state' = s.state
        /\ failure_count' = s.failure_count
    /\ b_pc' = "idle"
    /\ b_result' = "returned"
    /\ r_pc' = "idle"
    /\ UNCHANGED <<last_failure_time, failure_threshold, recovery_timeout, now, b_calls>>
    /\ UNCHANGED <<attempt, delay, last_exception, r_raised, r_returned, outcomes, sleeps>>
    /\ UNCHANGED <<retryParams, signalVars, threadVars, filterVars, policyVars, schedVars>>

\* retry_handler.py:84-92: func raised; the exception is re-raised to the caller.
BreakerRaise ==
    /\ b_pc = "in_func"
    /\ r_pc = "raised"
    /\ LET f == OnFailure(state, failure_count, now, failure_threshold) IN
        /\ state' = f.state
        /\ failure_count' = f.failure_count
        /\ last_failure_time' = f.last_failure_time
    /\ b_pc' = "idle"
    /\ b_result' = "raised"
    /\ r_pc' = "idle"
    /\ UNCHANGED <<failure_threshold, recovery_timeout, now, b_calls>>
    /\ UNCHANGED <<attempt, delay, last_exception, r_raised, r_returned, outcomes, sleeps>>
    /\ UNCHANGED <<retryParams, signalVars, threadVars, filterVars, policyVars, schedVars>>

\* Time passes between two calls of the caller.
Tick ==
    /\ b_pc = "idle"
    /\ now < MaxTime
    /\ now' = now + 1
    /\ UNCHANGED <<breakerVars, callerVars, retryParams, signalVars, retryLocals, threadVars, filterVars, policyVars, schedVars>>

----------------------------------------------------------------------------
(* Calls that keep arriving at one CircuitBreaker (SpecRecovery). func is the *)
(* protected operation itself. The count of calls started is kept modulo      *)
(* MaxCalls + 1, and an invocation may raise only while the cooldown it       *)
(* starts still ends before MaxTime, so that the clock can stop there.        *)

\* retry_handler.py:64-75: a call arrives; an open breaker raises at once or
\* goes half-open, and func is entered.
CallArrives ==
    /\ b_pc = "idle"
    /\ b_calls' = (b_calls + 1) % (MaxCalls + 1)
    /\ LET g == Gate(state, last_failure_time, now, recovery_timeout) IN
       IF g = "raise"
       THEN /\ b_result' = "rejected"
            /\ UNCHANGED <<b_pc, state>>
       ELSE /\ state' = g
            /\ b_pc' = "in_func"
            /\ b_result' = "running"
    /\ UNCHANGED <<failure_count, last_failure_time, failure_threshold, recovery_timeout>>
    /\ UNCHANGED <<now, retryParams, retryLocals, signalVars, threadVars, filterVars, policyVars, schedVars>>

\* retry_handler.py:75-82: func returns after d seconds.
FuncReturns(d) ==
    /\ b_pc = "in_func"
    /\ now + d <= MaxTime
    /\ now' = now + d
    /\ LET s == OnSuccess(state, failure_count) IN
        /\ state' = s.state
        /\ failure_count' = s.failure_count
    /\ b_pc' = "idle"
    /\ b_result' = "returned"
    /\ UNCHANGED <<last_failure_time, failure_threshold, recovery_timeout, b_calls>>
    /\ UNCHANGED <<retryParams, retryLocals, signalVars, threadVars, filterVars, policyVars, schedVars>>

\* retry_handler.py:84-92: func raises after d seconds; the exception is re-raised.
FuncRaises(d) ==
    /\ b_pc = "in_func"
    /\ now + d + recovery_timeout < MaxTime
    /\ now' = now + d
    /\ LET f == OnFailure(state, failure_count, now', failure_threshold) IN
        /\ state' = f.state
        /\ failure_count' = f.failure_count
        /\ last_failure_time' = f.last_failure_time
    /\ b_pc' = "idle"
    /\ b_result' = "raised"
    /\ UNCHANGED <<failure_threshold, recovery_timeout, b_calls>>
    /\ UNCHANGED <<retryParams, retryLocals, signalVars, threadVars, filterVars, policyVars, schedVars>>

\* func comes to an end
FuncEnds == \E d \in 0..MaxOpTime : FuncReturns(d) \/ FuncRaises(d)

----------------------------------------------------------------------------
(* Several threads on one CircuitBreaker instance. The class takes no lock,   *)
(* so the threads interleave between the statements of call; the += of        *)
(* retry_handler.py:85 is a load followed by a store.                          *)

Threads == 1..NumThreads

\* retry_handler.py:67-75: thread t passes the gate and enters func, or is rejected.
\* func is the protected operation itself.
ThreadCall(t) ==
    /\ t_pc[t] = "idle"
    /\ LET g == Gate(state, last_failure_time, now, recovery_timeout) IN
       IF g = "raise"
       THEN UNCHANGED <<state, t_pc, t_probe>>
       ELSE /\ state' = g
            /\ t_pc' = [t_pc EXCEPT ![t] = "in_func"]
            /\ t_probe' = [t_probe EXCEPT ![t] = (g = "half-open")]
    /\ UNCHANGED <<failure_count, last_failure_time, failure_threshold, recovery_timeout>>
    /\ UNCHANGED <<now, t_reg, callerVars, retryParams, signalVars, retryLocals, filterVars, policyVars, schedVars>>

\* retry_handler.py:75-82: func returned in thread t.
ThreadReturn(t) ==
    /\ t_pc[t] = "in_func"
    /\ LET s == OnSuccess(state, failure_count) IN
        /\ state' = s.state
        /\ failure_count' = s.failure_count
    /\ t_pc' = [t_pc EXCEPT ![t] = "idle"]
    /\ t_probe' = [t_probe EXCEPT ![t] = FALSE]
    /\ UNCHANGED <<last_failure_time, failure_threshold, recovery_timeout>>
    /\ UNCHANGED <<now, t_reg, callerVars, retryParams, signalVars, retryLocals, filterVars, policyVars, schedVars>>

\* retry_handler.py:84-85: func raised in thread t; the thread loads failure_count.
ThreadLoad(t) ==
    /\ t_pc[t] = "in_func"
    /\ t_reg' = [t_reg EXCEPT ![t] = failure_count]
    /\ t_pc' = [t_pc EXCEPT ![t] = "store"]
    /\ t_probe' = [t_probe EXCEPT ![t] = FALSE]
    /\ UNCHANGED <<breakerVars, now, callerVars, retryParams, signalVars, retryLocals, filterVars, policyVars, schedVars>>

\* retry_handler.py:85: the thread stores the incremented count.
ThreadStore(t) ==
    /\ t_pc[t] = "store"
    /\ failure_count' = t_reg[t] + 1
    /\ t_pc' = [t_pc EXCEPT ![t] = "stamp"]
    /\ UNCHANGED <<state, last_failure_time, failure_threshold, recovery_timeout>>
    /\ UNCHANGED <<now, t_reg, t_probe, callerVars, retryParams, signalVars, retryLocals, filterVars, policyVars, schedVars>>

\* retry_handler.py:86-92: the thread stamps the failure, compares the count (as it
\* is now) with the threshold and re-raises.
ThreadStamp(t) ==
    /\ t_pc[t] = "stamp"
    /\ last_failure_time' = <<now>>
    /\ state' = IF failure_count >= failure_threshold THEN "open" ELSE state
    /\ t_pc' = [t_pc EXCEPT ![t] = "idle"]
    /\ UNCHANGED <<failure_count, failure_threshold, recovery_timeout>>
    /\ UNCHANGED <<now, t_reg, t_probe, callerVars, retryParams, signalVars, retryLocals, filterVars, policyVars, schedVars>>

\* Time passes, whatever the threads are doing.
ThreadTick ==
    /\ now < MaxThreadTime
    /\ now' = now + 1
    /\ UNCHANGED <<breakerVars, callerVars, retryParams, signalVars, retryLocals, threadVars, filterVars, policyVars, schedVars>>

----------------------------------------------------------------------------
(* ExceptionManager: the ledger and filter_scan_results. In SpecFilter the    *)
(* clock counts days, the unit of expiry_days.                                 *)

MaxDay      == 2    \* the clock of SpecFilter stops here
MaxLedger   == 2    \* records the ledger holds at most
MaxFindings == 2    \* vulnerabilities of one scan at most

CveIds  == {"CVE-1", "CVE-2"}
Reasons == {"accepted"}
Images  == {"app:1", "app:2"}
\* approved_by: None, the default
Approvers == {"<None>"}
\* image = None (or any falsy image)
NoImage == ""

\* trivy_scanner.py:21 and exception_manager.py:114
Levels == {"CRITICAL", "HIGH", "MEDIUM", "LOW", "UNKNOWN"}
\* a vulnerability of the scanner's raw result without a Severity key; in the
\* cve_list its severity is None (trivy_scanner.py:130)
Missing == "<None>"
\* the Severity values tried: two of the levels, one value outside them, none at all
RawSeverities == {"CRITICAL", "HIGH", "NEGLIGIBLE", Missing}
\* the values of expiry_days tried
ExpiryDays == {1, 2}

\* datetime.isoformat and datetime.fromisoformat: the string of a datetime, and back
IsoFormat(t) == [iso |-> t]
FromIsoFormat(str) == str.iso

\* exception_manager.py:37: the first 8 hex digits of sha256(cve_id + reason), kept
\* as the pair it is computed from
Hash(cve_id, reason) == <<cve_id, reason>>

\* the number of elements of a list that satisfy Test
Count(list, Test(_)) == Cardinality({i \in 1..Len(list) : Test(list[i])})

\* sum(severity_summary.values())
SumValues(summary) ==
    summary["CRITICAL"] + summary["HIGH"] + summary["MEDIUM"] + summary["LOW"] + summary["UNKNOWN"]

\* trivy_scanner.py:107-117, 119-136 and 84-105: the scan result the scanner builds
\* from the raw vulnerabilities. The summary counts a vulnerability without Severity
\* under UNKNOWN and skips a Severity outside the levels; the cve_list keeps all.
Enhance(raw) ==
    [cve_list |-> raw,
     severity_summary |->
        [level \in Levels |->
            LET IsLevel(v) == (IF v.severity = Missing THEN "UNKNOWN" ELSE v.severity) = level
            IN  Count(raw, IsLevel)],
     total_vulnerabilities |->
        LET Counted(v) == v.severity = Missing \/ v.severity \in Levels
        IN  Count(raw, Counted)]

\* d.get(key, []) and d.get(key, {}) of a dict d
Get(d, key) == IF key \in DOMAIN d THEN d[key] ELSE <<>>

\* an expiry_date that is not an ISO date: datetime.fromisoformat raises
\* ValueError on it
MalformedDate == [text |-> "soon"]
IsIsoFormat(str) == "iso" \in DOMAIN str
\* the list holds a record whose expiry_date cannot be read
HasMalformed(list) == \E i \in 1..Len(list) : ~IsIsoFormat(list[i].expiry_date)

\* the outcome of an operation that returned
NoError == "none"

\* exception_manager.py:76 and 83: get_active_exceptions raises ValueError when a
\* record of the global list, or of the list of the image asked for, has an
\* expiry_date that fromisoformat cannot read
get_active_exceptions_raises(ledger, image) ==
    \/ HasMalformed(Get(ledger, "global"))
    \/ /\ image # NoImage
       /\ image \in DOMAIN Get(ledger, "image_specific")
       /\ HasMalformed(ledger.image_specific[image])

\* get_active_exceptions with the expiry compared by >= : a record that expires
\* exactly at t would still count
get_active_exceptionsInclusive(ledger, image, t) ==
    LET Active(list) == {list[i].cve_id : i \in {j \in 1..Len(list) :
                                FromIsoFormat(list[j].expiry_date) >= t}}
        specific == Get(ledger, "image_specific")
    IN  Active(Get(ledger, "global"))
        \cup (IF image # NoImage /\ image \in DOMAIN specific
              THEN Active(specific[image])
              ELSE {})

\* get_active_exceptions with the comparison turned round: the records that have
\* expired by t would count
get_active_exceptionsExpired(ledger, image, t) ==
    LET Active(list) == {list[i].cve_id : i \in {j \in 1..Len(list) :
                                FromIsoFormat(list[j].expiry_date) < t}}
        specific == Get(ledger, "image_specific")
    IN  Active(Get(ledger, "global"))
        \cup (IF image # NoImage /\ image \in DOMAIN specific
              THEN Active(specific[image])
              ELSE {})

\* exception_manager.py:68-87
get_active_exceptions(ledger, image, t) ==
    LET Active(list) == {list[i].cve_id : i \in {j \in 1..Len(list) :
                                FromIsoFormat(list[j].expiry_date) > t}}
        specific == Get(ledger, "image_specific")
    IN  Active(Get(ledger, "global"))
        \cup (IF image # NoImage /\ image \in DOMAIN specific
              THEN Active(specific[image])
              ELSE {})

\* a recount that adds the remaining findings to the counts there were
RecountOnTop(old, cves) ==
    [level \in Levels |-> LET IsLevel(c) == c.severity = level IN old[level] + Count(cves, IsLevel)]

\* exception_manager.py:113-118: the summary of the remaining findings
Recount(old, cves) ==
    [level \in Levels |-> LET IsLevel(c) == c.severity = level IN Count(cves, IsLevel)]

\* exception_manager.py:89-123
filter_scan_results(ledger, results, image, t) ==
    LET active_exceptions == get_active_exceptions(ledger, image, t)
        Excepted(cve) == cve.id \in active_exceptions
        Kept(cve) == cve.id \notin active_exceptions
        filtered_cves == SelectSeq(results.cve_list, Kept)
        excepted_cves == SelectSeq(results.cve_list, Excepted)
        severity_summary == Recount(results.severity_summary, filtered_cves)
    IN  IF active_exceptions = {}
        THEN results
        ELSE [cve_list |-> filtered_cves,
              excepted_cves |-> excepted_cves,
              excepted_count |-> Len(excepted_cves),
              severity_summary |-> severity_summary,
              total_vulnerabilities |-> SumValues(severity_summary)]

\* a filter that writes into the dict it was given instead of a copy: the caller's
\* scan result would become the filtered one
scan_results_afterInPlace(ledger, results, image, t) ==
    filter_scan_results(ledger, results, image, t)

\* exception_manager.py:94-95 and 106-109: the caller's scan_results once the
\* filter has returned. The filter returns it as it is or writes into
\* scan_results.copy(), and builds new lists: the caller's dict is as it was.
scan_results_after(ledger, results, image, t) == results

\* A YAML text is a sequence of lines: the line of a top-level key, the line of an
\* image's key under image_specific, the line of a list item (an exception
\* record), the line "{}" of an empty mapping, and a line that is not YAML.
KeyLine(key) == [key |-> key]
ImageLine(image) == [image |-> image]
ItemLine(item) == [item |-> item]
EmptyMapLine == [flow |-> "{}"]
GarbageLine == [garbage |-> TRUE]
\* the empty text, of a file of length 0
EmptyText == <<>>
\* the images in the order of their keys, the order yaml.dump writes them in
ImageOrder == <<"app:1", "app:2">>
\* what yaml.safe_load raises on a text that is not YAML
YAMLError == [error |-> "YAMLError"]

ItemLines(list) == [i \in 1..Len(list) |-> ItemLine(list[i])]

RECURSIVE ImageLines(_, _)
ImageLines(specific, i) ==
    IF i > Len(ImageOrder) THEN <<>>
    ELSE (IF ImageOrder[i] \in DOMAIN specific
          THEN <<ImageLine(ImageOrder[i])>> \o ItemLines(specific[ImageOrder[i]])
          ELSE <<>>)
         \o ImageLines(specific, i + 1)

\* yaml.dump(data, f, default_flow_style=False) (exception_manager.py:25): the
\* keys in sorted order, each list item on lines of its own
YamlDump(data) ==
    IF DOMAIN data = {} THEN <<EmptyMapLine>>
    ELSE (IF "global" \in DOMAIN data
          THEN <<KeyLine("global")>> \o ItemLines(data.global) ELSE <<>>)
         \o (IF "image_specific" \in DOMAIN data
              THEN <<KeyLine("image_specific")>> \o ImageLines(data.image_specific, 1)
              ELSE <<>>)

\* yaml.safe_load from line i on, with the mapping read so far, the top-level
\* key and the image the lines are under. A key met again replaces its value.
RECURSIVE YamlLoadFrom(_, _, _, _, _)
YamlLoadFrom(text, i, data, section, image) ==
    IF i > Len(text) THEN data
    ELSE LET line == text[i] IN
         IF "garbage" \in DOMAIN line THEN YAMLError
         ELSE IF "flow" \in DOMAIN line
         THEN YamlLoadFrom(text, i + 1, data, section, image)
         ELSE IF "key" \in DOMAIN line
         THEN YamlLoadFrom(text, i + 1,
                [k \in DOMAIN data \cup {line.key} |->
                    IF k = line.key THEN <<>> ELSE data[k]],
                line.key, NoImage)
         ELSE IF "image" \in DOMAIN line
         THEN IF section # "image_specific" THEN YAMLError
              ELSE YamlLoadFrom(text, i + 1,
                     [data EXCEPT !.image_specific =
                        [im \in DOMAIN @ \cup {line.image} |->
                            IF im = line.image THEN <<>> ELSE @[im]]],
                     section, line.image)
         ELSE IF section = "global"
         THEN YamlLoadFrom(text, i + 1,
                [data EXCEPT !.global = Append(@, line.item)], section, image)
         ELSE IF section = "image_specific" /\ image # NoImage
         THEN YamlLoadFrom(text, i + 1,
                [data EXCEPT !.image_specific[image] = Append(@, line.item)],
                section, image)
         ELSE YAMLError

\* yaml.safe_load(f): None (the empty mapping here) of an empty text, the
\* mapping of a text of key, image and item lines, YAMLError otherwise
YamlLoad(text) == YamlLoadFrom(text, 1, <<>>, "", NoImage)

\* a save that is held back: the file would stay as it is
save_exceptionsHeldBack(ledger) == UNCHANGED exception_file

\* exception_manager.py:22-25: the file is rewritten with the ledger given
save_exceptions(ledger) == exception_file' = <<YamlDump(ledger)>>

\* The ledger's size, for the bound of the model.
LedgerSize(ledger) ==
    Len(Get(ledger, "global"))
    + Cardinality({<<im, i>> \in Images \X (1..MaxLedger) :
            /\ im \in DOMAIN Get(ledger, "image_specific")
            /\ i <= Len(ledger.image_specific[im])})

\* The store has one caller: it is done with a filtered result before its next
\* operation on the store.
NoResultHeld == filtered_results = None

\* exception_manager.py:30-38: the record add_exception builds at time t
NewException(cve_id, reason, expiry_days, approved_by, t) ==
    [cve_id |-> cve_id,
     reason |-> reason,
     added_date |-> IsoFormat(t),
     expiry_date |-> IsoFormat(t + expiry_days),
     approved_by |-> approved_by,
     hash |-> Hash(cve_id, reason)]

\* exception_manager.py:40-45: add_exception raises KeyError when the ledger has
\* no 'image_specific' (an image is given) or no 'global' (none is given)
add_exception_raises(ledger, image) ==
    IF image # NoImage THEN "image_specific" \notin DOMAIN ledger
    ELSE "global" \notin DOMAIN ledger

\* add_exception keeping one record for a cve id in a collection: the record added
\* would take the place of the earlier ones of its cve id
add_exceptionUnique(ledger, exception, image) ==
    LET specific == ledger.image_specific
        Other(e) == e.cve_id # exception.cve_id
    IN
    IF image # NoImage
    THEN [ledger EXCEPT !.image_specific =
            [im \in DOMAIN specific \cup {image} |->
                IF im = image
                THEN Append(IF im \in DOMAIN specific
                            THEN SelectSeq(specific[im], Other) ELSE <<>>, exception)
                ELSE specific[im]]]
    ELSE [ledger EXCEPT !.global = Append(SelectSeq(@, Other), exception)]

\* exception_manager.py:40-45: the ledger with the record appended for the image,
\* or to the global list when no image is given
add_exception(ledger, exception, image) ==
    LET specific == ledger.image_specific IN
    IF image # NoImage
    THEN [ledger EXCEPT !.image_specific =
            [im \in DOMAIN specific \cup {image} |->
                IF im = image
                THEN Append(IF im \in DOMAIN specific THEN specific[im] ELSE <<>>, exception)
                ELSE specific[im]]]
    ELSE [ledger EXCEPT !.global = Append(@, exception)]

\* exception_manager.py:54 and 60: remove_exception raises KeyError when the
\* ledger has no 'global' or no 'image_specific'
remove_exception_raises(ledger) == ~({"global", "image_specific"} \subseteq DOMAIN ledger)

\* exception_manager.py:54-60: the ledger remove_exception leaves in memory when
\* it raises: the global list, if there is one, is already rewritten
remove_exception_raised(ledger, exception_hash) ==
    LET Other(e) == e.hash # exception_hash IN
    IF "global" \in DOMAIN ledger
    THEN [ledger EXCEPT !.global = SelectSeq(@, Other)]
    ELSE ledger

\* remove_exception without its second loop: the lists of the images would keep
\* the records of that hash
remove_exceptionGlobalOnly(ledger, exception_hash) ==
    LET Other(e) == e.hash # exception_hash IN
    [global |-> SelectSeq(ledger.global, Other),
     image_specific |-> ledger.image_specific]

\* exception_manager.py:53-64: the ledger without the records of that hash
remove_exception(ledger, exception_hash) ==
    LET Other(e) == e.hash # exception_hash IN
    [global |-> SelectSeq(ledger.global, Other),
     image_specific |-> [im \in DOMAIN ledger.image_specific |->
                            SelectSeq(ledger.image_specific[im], Other)]]

\* exception_manager.py:133 and 140: cleanup_expired_exceptions raises ValueError
\* when any record has an expiry_date that fromisoformat cannot read
cleanup_expired_exceptions_raises(ledger) ==
    \/ HasMalformed(Get(ledger, "global"))
    \/ \E im \in DOMAIN Get(ledger, "image_specific") :
            HasMalformed(ledger.image_specific[im])

\* exception_manager.py:131-141: the ledgers cleanup_expired_exceptions can leave
\* in memory when it raises. A malformed record in the global list stops it
\* before any assignment; otherwise the global list is rewritten, and so are the
\* lists of the images that come before the first one with a malformed record,
\* in the order of the dict, which can be any.
cleanup_expired_exceptions_raised(ledger, t) ==
    LET Live(e) == FromIsoFormat(e.expiry_date) > t
        specific == Get(ledger, "image_specific")
        sound == {im \in DOMAIN specific : ~HasMalformed(specific[im])}
    IN  IF HasMalformed(Get(ledger, "global")) THEN {ledger}
        ELSE {[ledger EXCEPT !.global = SelectSeq(@, Live),
                             !.image_specific =
                                [im \in DOMAIN specific |->
                                    IF im \in done THEN SelectSeq(specific[im], Live)
                                    ELSE specific[im]]] : done \in SUBSET sound}

\* cleanup_expired_exceptions without its second loop: the lists of the images
\* would keep their expired records
cleanup_expired_exceptionsGlobalOnly(ledger, t) ==
    LET Live(e) == FromIsoFormat(e.expiry_date) > t
        cleaned == SelectSeq(Get(ledger, "global"), Live)
    IN  IF "image_specific" \in DOMAIN ledger
        THEN [global |-> cleaned, image_specific |-> ledger.image_specific]
        ELSE [global |-> cleaned]

\* cleanup_expired_exceptions that also drops the records with a day left
cleanup_expired_exceptionsEarly(ledger, t) ==
    LET Live(e) == FromIsoFormat(e.expiry_date) > t + 1
        cleaned == SelectSeq(Get(ledger, "global"), Live)
    IN  IF "image_specific" \in DOMAIN ledger
        THEN [global |-> cleaned,
              image_specific |-> [im \in DOMAIN ledger.image_specific |->
                                    SelectSeq(ledger.image_specific[im], Live)]]
        ELSE [global |-> cleaned]

\* exception_manager.py:128-141: the ledger without the records expired at time t
cleanup_expired_exceptions(ledger, t) ==
    LET Live(e) == FromIsoFormat(e.expiry_date) > t
        cleaned == SelectSeq(Get(ledger, "global"), Live)
    IN  IF "image_specific" \in DOMAIN ledger
        THEN [global |-> cleaned,
              image_specific |-> [im \in DOMAIN ledger.image_specific |->
                                    SelectSeq(ledger.image_specific[im], Live)]]
        ELSE [global |-> cleaned]

\* exception_manager.py:27-48
AddException ==
    /\ NoResultHeld
    /\ LedgerSize(exceptions) < MaxLedger
    /\ \E cve_id \in CveIds, reason \in Reasons, expiry_days \in ExpiryDays,
          image \in Images \cup {NoImage}, approved_by \in Approvers :
        IF add_exception_raises(exceptions, image)
        THEN /\ last_op' = [op |-> "add", cve_id |-> cve_id, reason |-> reason,
                            expiry_days |-> expiry_days, image |-> image,
                            raised |-> "KeyError"]
             /\ UNCHANGED <<exceptions, exception_file>>
        ELSE /\ exceptions' = add_exception(exceptions,
                    NewException(cve_id, reason, expiry_days, approved_by, now), image)
             /\ last_op' = [op |-> "add", cve_id |-> cve_id, reason |-> reason,
                            expiry_days |-> expiry_days, image |-> image,
                            raised |-> NoError]
             /\ save_exceptions(exceptions')
    /\ UNCHANGED <<scan_results, filter_image, filtered_results>>
    /\ UNCHANGED <<breakerVars, now, callerVars, retryParams, signalVars, retryLocals, threadVars, procVars, policyVars, schedVars>>

\* exception_manager.py:50-66
RemoveException ==
    /\ NoResultHeld
    /\ \E cve_id \in CveIds, reason \in Reasons :
        IF remove_exception_raises(exceptions)
        THEN /\ exceptions' = remove_exception_raised(exceptions, Hash(cve_id, reason))
             /\ last_op' = [op |-> "remove", hash |-> Hash(cve_id, reason),
                            removed |-> LedgerSize(exceptions) - LedgerSize(exceptions'),
                            raised |-> "KeyError"]
             /\ UNCHANGED exception_file
        ELSE /\ exceptions' = remove_exception(exceptions, Hash(cve_id, reason))
             /\ last_op' = [op |-> "remove", hash |-> Hash(cve_id, reason),
                            removed |-> LedgerSize(exceptions) - LedgerSize(exceptions'),
                            raised |-> NoError]
             /\ save_exceptions(exceptions')
    /\ UNCHANGED <<scan_results, filter_image, filtered_results>>
    /\ UNCHANGED <<breakerVars, now, callerVars, retryParams, signalVars, retryLocals, threadVars, procVars, policyVars, schedVars>>

\* exception_manager.py:125-143
CleanupExpired ==
    /\ NoResultHeld
    /\ IF cleanup_expired_exceptions_raises(exceptions)
       THEN /\ exceptions' \in cleanup_expired_exceptions_raised(exceptions, now)
            /\ last_op' = [op |-> "cleanup",
                           removed |-> LedgerSize(exceptions) - LedgerSize(exceptions'),
                           raised |-> "ValueError"]
            /\ UNCHANGED exception_file
       ELSE /\ exceptions' = cleanup_expired_exceptions(exceptions, now)
            /\ last_op' = [op |-> "cleanup",
                           removed |-> LedgerSize(exceptions) - LedgerSize(exceptions'),
                           raised |-> NoError]
            /\ save_exceptions(exceptions')
    /\ UNCHANGED <<scan_results, filter_image, filtered_results>>
    /\ UNCHANGED <<breakerVars, now, callerVars, retryParams, signalVars, retryLocals, threadVars, procVars, policyVars, schedVars>>

\* the raw vulnerabilities of a scan: VulnerabilityID and Severity
RawVulns == [id : CveIds, severity : RawSeverities]
RawScans == UNION {[1..n -> RawVulns] : n \in 0..MaxFindings}

\* A scan of the scanner is filtered for an image (or for none); the caller
\* holds the scan and the filtered result until it drops them.
FilterScan ==
    /\ NoResultHeld
    /\ \E raw \in RawScans, image \in Images \cup {NoImage} :
        IF get_active_exceptions_raises(exceptions, image)
        THEN /\ scan_results' = None
             /\ filter_image' = NoImage
             /\ filtered_results' = None
             /\ last_op' = [op |-> "filter", input |-> Enhance(raw), raised |-> "ValueError"]
        ELSE /\ scan_results' = <<scan_results_after(exceptions, Enhance(raw), image, now)>>
             /\ filter_image' = image
             /\ filtered_results' = <<filter_scan_results(exceptions, Enhance(raw), image, now)>>
             /\ last_op' = [op |-> "filter", input |-> Enhance(raw), raised |-> NoError]
    /\ UNCHANGED <<exceptions, exception_file>>
    /\ UNCHANGED <<breakerVars, now, callerVars, retryParams, signalVars, retryLocals, threadVars, procVars, policyVars, schedVars>>

\* The caller is done with the filtered result.
DropResults ==
    /\ ~NoResultHeld
    /\ scan_results' = None
    /\ filter_image' = NoImage
    /\ filtered_results' = None
    /\ last_op' = [op |-> "none", raised |-> NoError]
    /\ UNCHANGED <<exceptions, exception_file>>
    /\ UNCHANGED <<breakerVars, now, callerVars, retryParams, signalVars, retryLocals, threadVars, procVars, policyVars, schedVars>>

\* exception_manager.py:68-87: a call of get_active_exceptions for an image (or
\* for none)
GetActive ==
    /\ NoResultHeld
    /\ \E image \in Images \cup {NoImage} :
        IF get_active_exceptions_raises(exceptions, image)
        THEN last_op' = [op |-> "active", image |-> image, raised |-> "ValueError"]
        ELSE last_op' = [op |-> "active", image |-> image, raised |-> NoError,
                         result |-> get_active_exceptions(exceptions, image, now)]
    /\ UNCHANGED <<exceptions, exception_file>>
    /\ UNCHANGED <<scan_results, filter_image, filtered_results>>
    /\ UNCHANGED <<breakerVars, now, callerVars, retryParams, signalVars, retryLocals, threadVars, procVars, policyVars, schedVars>>

\* exception_manager.py:19-20: the ledger of a store whose file is missing
FreshLedger == [global |-> <<>>, image_specific |-> <<>>]

\* exception_manager.py:14-20: _load_exceptions catches FileNotFoundError only;
\* what yaml.safe_load raises goes on to the caller of the constructor
_load_exceptions_raises(file) == file # None /\ YamlLoad(file[1]) = YAMLError

\* exception_manager.py:14-20: the fresh ledger when the file is missing, else
\* yaml.safe_load(f) or {}: the mapping in the file, {} for an empty file
_load_exceptions(file) ==
    IF file = None THEN FreshLedger ELSE YamlLoad(file[1])

\* exception_manager.py:10-12: a store is constructed over the file and takes the
\* place of the one before. When the constructor raises there is no new store
\* and the one before stays.
StoreLoad ==
    /\ NoResultHeld
    /\ IF _load_exceptions_raises(exception_file)
       THEN /\ last_op' = [op |-> "load", raised |-> "YAMLError"]
            /\ UNCHANGED exceptions
       ELSE /\ exceptions' = _load_exceptions(exception_file)
            /\ last_op' = [op |-> "load", raised |-> NoError]
    /\ UNCHANGED exception_file
    /\ UNCHANGED <<scan_results, filter_image, filtered_results>>
    /\ UNCHANGED <<breakerVars, now, callerVars, retryParams, signalVars, retryLocals, threadVars, procVars, policyVars, schedVars>>

\* a record written into the file by hand, with an expiry date that is not one
HandRecord(cve_id) ==
    [NewException(cve_id, "accepted", 1, "<None>", 0) EXCEPT !.expiry_date = MalformedDate]

\* The file is config/exceptions.yaml, which people and other programs write
\* too. The files a store can find: none, an empty one, one that is not YAML,
\* and a ledger, empty or of one record the store wrote on day 0, to which a
\* record with a malformed expiry date was added by hand.
StartLedgers ==
    {FreshLedger}
    \cup {add_exception(FreshLedger, NewException(cve_id, reason, expiry_days, approved_by, 0), image) :
            cve_id \in CveIds, reason \in Reasons, expiry_days \in ExpiryDays,
            approved_by \in Approvers, image \in Images \cup {NoImage}}
StartFiles ==
    {None, <<EmptyText>>, <<(<<GarbageLine>>)>>}
    \cup {<<YamlDump(add_exception(ledger, HandRecord(cve_id), image))>> :
            ledger \in StartLedgers, cve_id \in CveIds, image \in Images \cup {NoImage}}

Procs == 1..NumProcs

\* a file written from its start over what it holds: what lay beyond the new text
\* stays
WriteAtStart(text, lines) == lines \o SubSeq(text, Len(lines) + 1, Len(text))

ProcFrame ==
    /\ UNCHANGED <<exceptions, scan_results, filter_image, filtered_results, last_op>>
    /\ UNCHANGED <<breakerVars, now, callerVars, retryParams, signalVars, retryLocals, threadVars, policyVars, schedVars>>

\* exception_manager.py:10-20: process p constructs its store; the constructor
\* raises when the file is not YAML
ProcConstruct(p) ==
    /\ p_pc[p] = "none"
    /\ IF _load_exceptions_raises(exception_file)
       THEN /\ p_pc' = [p_pc EXCEPT ![p] = "failed"]
            /\ UNCHANGED <<p_exceptions, p_loaded>>
       ELSE /\ p_pc' = [p_pc EXCEPT ![p] = "ready"]
            /\ p_exceptions' = [p_exceptions EXCEPT ![p] = _load_exceptions(exception_file)]
            /\ p_loaded' = [p_loaded EXCEPT ![p] = _load_exceptions(exception_file)]
    /\ UNCHANGED <<exception_file, committed, last_closed>>
    /\ ProcFrame

\* exception_manager.py:27-45 and 24: process p calls add_exception, which
\* appends the record in memory and enters save_exceptions: open(file, 'w')
\* leaves the file empty. KeyError ends the call when the ledger lacks the list.
ProcAdd(p) ==
    /\ p_pc[p] = "ready"
    /\ \E cve_id \in CveIds, reason \in Reasons, expiry_days \in ExpiryDays,
          image \in Images \cup {NoImage}, approved_by \in Approvers :
        IF add_exception_raises(p_exceptions[p], image)
        THEN /\ p_pc' = [p_pc EXCEPT ![p] = "failed"]
             /\ UNCHANGED <<p_exceptions, exception_file>>
        ELSE /\ p_pc' = [p_pc EXCEPT ![p] = "saving"]
             /\ p_exceptions' = [p_exceptions EXCEPT ![p] =
                    add_exception(@, NewException(cve_id, reason, expiry_days,
                                                  approved_by, now), image)]
             /\ exception_file' = <<EmptyText>>
    /\ UNCHANGED <<p_loaded, committed, last_closed>>
    /\ ProcFrame

\* exception_manager.py:25: yaml.dump writes the text of p's ledger through the
\* handle p opened, from the start of the file, and the file is closed; the
\* call of add_exception returns
ProcClose(p) ==
    /\ p_pc[p] = "saving"
    /\ p_pc' = [p_pc EXCEPT ![p] = "done"]
    /\ exception_file' = <<WriteAtStart(exception_file[1], YamlDump(p_exceptions[p]))>>
    /\ committed' = committed \cup {p_exceptions[p]}
    /\ last_closed' = <<p>>
    /\ UNCHANGED <<p_exceptions, p_loaded>>
    /\ ProcFrame

\* A day passes.
DayTick ==
    /\ NoResultHeld
    /\ now < MaxDay
    /\ now' = now + 1
    /\ last_op' = [op |-> "none", raised |-> NoError]
    /\ UNCHANGED <<exceptions, exception_file, scan_results, filter_image, filtered_results>>
    /\ UNCHANGED <<breakerVars, callerVars, retryParams, signalVars, retryLocals, threadVars, procVars, policyVars, schedVars>>

----------------------------------------------------------------------------
(* RescanScheduler: start, stop and the loop of the background thread      *)
(* (src/scanner/rescan_scheduler.py). One caller; the loop threads run on    *)
(* their own.                                                                *)

Loops == 1..MaxLoops

\* the threads start has not spawned yet
Unborn == {t \in Loops : l_pc[t] = "unborn"}

\* rescan_scheduler.py:114-130: start returns at once when running is set;
\* otherwise it sets running and spawns a thread on run_scheduler.
Start ==
    /\ s_pc = "idle"
    /\ IF sch_running
       THEN /\ s_last' = [op |-> "start", spawned |-> FALSE]
            /\ UNCHANGED <<sch_running, sch_thread, l_pc>>
       ELSE /\ Unborn # {}
            /\ LET t == CHOOSE u \in Unborn : \A v \in Unborn : u <= v IN
                /\ sch_running' = TRUE
                /\ sch_thread' = <<t>>
                /\ l_pc' = [l_pc EXCEPT ![t] = "test"]
            /\ s_last' = [op |-> "start", spawned |-> TRUE]
    /\ UNCHANGED <<s_pc, stopped>>
    /\ UNCHANGED <<breakerVars, now, callerVars, retryParams, retryLocals, signalVars,
                   threadVars, filterVars, policyVars>>

\* rescan_scheduler.py:132-137: stop clears running and, if there is a thread,
\* joins it for at most 5 seconds.
Stop ==
    /\ s_pc = "idle"
    /\ sch_running' = FALSE
    /\ IF sch_thread # None
       THEN /\ s_pc' = "joining"
            /\ stopped' = stopped \cup {sch_thread[1]}
            /\ UNCHANGED s_last
       ELSE /\ s_last' = [op |-> "stop", joined |-> FALSE]
            /\ UNCHANGED <<s_pc, stopped>>
    /\ UNCHANGED <<sch_thread, l_pc>>
    /\ UNCHANGED <<breakerVars, now, callerVars, retryParams, retryLocals, signalVars,
                   threadVars, filterVars, policyVars>>

\* rescan_scheduler.py:137-138: join returns, the thread having ended or the 5
\* seconds being over while it sleeps its 60, and stop returns.
JoinEnds ==
    /\ s_pc = "joining"
    /\ l_pc[sch_thread[1]] \in {"ended", "sleep"}
    /\ s_pc' = "idle"
    /\ s_last' = [op |-> "stop", joined |-> l_pc[sch_thread[1]] = "ended"]
    /\ UNCHANGED <<sch_running, sch_thread, l_pc, stopped>>
    /\ UNCHANGED <<breakerVars, now, callerVars, retryParams, retryLocals, signalVars,
                   threadVars, filterVars, policyVars>>

\* rescan_scheduler.py:124: while self.running
LoopGoesOn(is_running) == IF is_running THEN "sleep" ELSE "ended"

\* rescan_scheduler.py:124-126: thread t tests running; it runs the pending jobs
\* and goes to sleep for 60 seconds, or leaves the loop and ends.
LoopTest(t) ==
    /\ l_pc[t] = "test"
    /\ l_pc' = [l_pc EXCEPT ![t] = LoopGoesOn(sch_running)]
    /\ UNCHANGED <<sch_running, sch_thread, s_pc, s_last, stopped>>
    /\ UNCHANGED <<breakerVars, now, callerVars, retryParams, retryLocals, signalVars,
                   threadVars, filterVars, policyVars>>

\* rescan_scheduler.py:126: the sleep of thread t is over.
LoopWake(t) ==
    /\ l_pc[t] = "sleep"
    /\ l_pc' = [l_pc EXCEPT ![t] = "test"]
    /\ UNCHANGED <<sch_running, sch_thread, s_pc, s_last, stopped>>
    /\ UNCHANGED <<breakerVars, now, callerVars, retryParams, retryLocals, signalVars,
                   threadVars, filterVars, policyVars>>

\* rescan_scheduler.py:15-21
SchedulerFresh ==
    /\ sch_running = FALSE
    /\ sch_thread = None
    /\ l_pc = [t \in Loops |-> "unborn"]
    /\ s_pc = "idle"
    /\ s_last = [op |-> "none"]
    /\ stopped = {}

----------------------------------------------------------------------------
(* Initial states and specifications *)

\* retry_handler.py:57-62, with the defaults of the constructor
BreakerFresh ==
    /\ state = "closed"
    /\ failure_count = 0
    /\ last_failure_time = None

CallerIdle ==
    /\ b_pc = "idle"
    /\ b_result = "none"
    /\ b_calls = 0

WrapperIdle ==
    /\ r_pc = "idle"
    /\ attempt = 0
    /\ delay = 0
    /\ last_exception = 0
    /\ r_raised = 0
    /\ r_returned = 0
    /\ outcomes = <<>>
    /\ sleeps = <<>>
    /\ cancel_requested = FALSE

ThreadsIdle ==
    /\ t_pc = [t \in Threads |-> "idle"]
    /\ t_reg = [t \in Threads |-> 0]
    /\ t_probe = [t \in Threads |-> FALSE]

(***************************************************************************)
(* threshold_checker.py: the counts of a scan result against the policy    *)
(***************************************************************************)

\* trivy_scanner.py:107-117: the severity names a summary is keyed by
SummaryKeys == {"CRITICAL", "HIGH", "MEDIUM"}

\* threshold_checker.py:28: str.lower on the names above and on policy keys
Lower(severity) ==
    CASE severity = "CRITICAL" -> "critical"
      [] severity = "HIGH"     -> "high"
      [] severity = "MEDIUM"   -> "medium"
      [] severity = "LOW"      -> "low"
      [] severity = "UNKNOWN"  -> "unknown"
      [] OTHER                 -> severity

\* threshold_checker.py:31: the limit of a threshold that names none
DefaultMaxAllowed == 999

\* threshold_checker.py:39: the action of a threshold that names none
DefaultAction == "log"

\* a summary is held as the sequence of its items, in the order the loop at
\* threshold_checker.py:27 visits them
SummaryItem(severity, count) == [severity |-> severity, count |-> count]

\* threshold_checker.py:33 with >= for >
ExceedsInclusive(count, max_allowed) == count >= max_allowed

\* threshold_checker.py:33
Exceeds(count, max_allowed) == count > max_allowed

\* threshold_checker.py:27-42: the loop from item i on
RECURSIVE check_from(_, _, _, _)
check_from(policy, summary, i, results) ==
    IF i > Len(summary) THEN results
    ELSE
        LET severity == summary[i].severity
            count == summary[i].count
            severity_lower == Lower(severity)
        IN  IF severity_lower \in DOMAIN policy
            THEN
                LET threshold == policy[severity_lower]
                    max_allowed == IF "max_allowed" \in DOMAIN threshold
                                   THEN threshold.max_allowed ELSE DefaultMaxAllowed
                    action == IF "action" \in DOMAIN threshold
                              THEN threshold.action ELSE DefaultAction
                    violation == [severity |-> severity, count |-> count,
                                  max_allowed |-> max_allowed, action |-> action]
                IN  IF Exceeds(count, max_allowed)
                    THEN check_from(policy, summary, i + 1,
                            [passed |-> FALSE,
                             violations |-> Append(results.violations, violation),
                             actions |-> Append(results.actions, action)])
                    ELSE check_from(policy, summary, i + 1, results)
            ELSE check_from(policy, summary, i + 1, results)

\* threshold_checker.py:13-44
check(policy, summary) ==
    check_from(policy, summary, 1, [passed |-> TRUE, violations |-> <<>>, actions |-> <<>>])

\* threshold_checker.py:79-84 looking at the first action only
sys_exitFirstOnly(actions) ==
    IF Len(actions) > 0 /\ actions[1] = "block" THEN 1
    ELSE IF \E i \in 1..Len(actions) : actions[i] = "warn" THEN 0
    ELSE 0

\* threshold_checker.py:79-84: the exit code
sys_exit(actions) ==
    IF \E i \in 1..Len(actions) : actions[i] = "block" THEN 1
    ELSE IF \E i \in 1..Len(actions) : actions[i] = "warn" THEN 0
    ELSE 0

\* threshold_checker.py:46-84: one run over the two files it is given
Main ==
    /\ check_results = None
    /\ check_results' = <<check(thresholds, scan_summary)>>
    /\ exit_code' = <<sys_exit(check_results'[1].actions)>>
    /\ UNCHANGED <<thresholds, scan_summary>>
    /\ UNCHANGED <<breakerVars, now, callerVars, retryParams, retryLocals, signalVars,
                   threadVars, filterVars, schedVars>>

\* the thresholds a policy file gives one severity: a limit around the counts
\* and an action, or one of the two left to its default
Thresholds ==
    [max_allowed : {-1, 0, 1}, action : {"log", "warn", "block"}]
        \cup {[max_allowed |-> 0], [action |-> "block"]}

\* the policies over one key: the key absent, or present with a threshold
PolicyOver(key) == {<<>>} \cup {[k \in {key} |-> threshold] : threshold \in Thresholds}

\* policy files: keys in lower case as configured, or one written in upper case
Policies ==
    {critical @@ high @@ medium :
        critical \in PolicyOver("critical"),
        high \in PolicyOver("high") \cup {[k \in {"HIGH"} |-> [max_allowed |-> 0, action |-> "block"]]},
        medium \in PolicyOver("medium")}

\* the summaries of scan results: distinct severity names in any order
Summaries ==
    {summary \in UNION {[1..n -> {SummaryItem(severity, count) :
                                    severity \in SummaryKeys, count \in 0..MaxCount}] :
                         n \in 0..Cardinality(SummaryKeys)} :
        \A i, j \in 1..Len(summary) : summary[i].severity = summary[j].severity => i = j}

\* trivy_scanner.py:21: the order of the keys of the summary the scanner builds
ScannerOrder == <<"UNKNOWN", "LOW", "MEDIUM", "HIGH", "CRITICAL">>

\* exception_manager.py:113: the order of the keys of the summary the filter builds
FilterOrder == <<"CRITICAL", "HIGH", "MEDIUM", "LOW", "UNKNOWN">>

\* the items of a summary whose keys were inserted in the order given
dict_items(summary, order) ==
    [i \in 1..Len(order) |-> SummaryItem(order[i], summary[order[i]])]

\* the items of the summary of a result: the filter's early return hands on the
\* scanner's dict, otherwise the summary is the one built at line 113
summary_items(results) ==
    dict_items(results.severity_summary,
               IF "excepted_cves" \in DOMAIN results THEN FilterOrder ELSE ScannerOrder)

\* The caller writes the filtered result to the file it gives main as
\* --scan-results (threshold_checker.py:48, 54-55).
HandOver ==
    /\ ~NoResultHeld
    /\ scan_summary = <<>>
    /\ check_results = None
    /\ scan_summary' = summary_items(filtered_results[1])
    /\ UNCHANGED <<thresholds, check_results, exit_code>>
    /\ UNCHANGED <<breakerVars, now, callerVars, retryParams, retryLocals, signalVars,
                   threadVars, filterVars, schedVars>>

\* main run on the file the caller wrote
MainOnFiltered == scan_summary # <<>> /\ Main

\* policies over the severities a scan of RawSeverities can count: each of
\* critical, high and unknown absent or blocking above a limit of 0 or 1
GateThresholds == [max_allowed : {0, 1}, action : {"block"}]
GatePolicyOver(key) == {<<>>} \cup {[k \in {key} |-> threshold] : threshold \in GateThresholds}
GatePolicies ==
    {critical @@ high @@ unknown :
        critical \in GatePolicyOver("critical"),
        high \in GatePolicyOver("high"),
        unknown \in GatePolicyOver("unknown")}

\* threshold_checker.py has not run
PolicyIdle ==
    /\ thresholds = <<>>
    /\ scan_summary = <<>>
    /\ check_results = None
    /\ exit_code = None

\* no process has constructed a store
ProcsIdle ==
    /\ p_pc = [p \in Procs |-> "none"]
    /\ p_exceptions = [p \in Procs |-> None]
    /\ p_loaded = [p \in Procs |-> None]
    /\ committed = {}
    /\ last_closed = None

\* exception_manager.py:10-20: no exception file yet
LedgerFresh ==
    /\ exceptions = _load_exceptions(None)
    /\ exception_file = None
    /\ scan_results = None
    /\ filter_image = NoImage
    /\ filtered_results = None
    /\ last_op = [op |-> "none", raised |-> NoError]
    /\ ProcsIdle

\* retry_handler.py:13-14 and 57: the defaults
DefaultParams ==
    /\ failure_threshold = 5
    /\ recovery_timeout = 60
    /\ max_retries = 3
    /\ initial_delay = 1
    /\ backoff_factor = 2
    /\ max_delay = 60

InitRetry ==
    /\ max_retries \in 0..MaxRetries
    /\ initial_delay \in 1..MaxInitDelay
    /\ backoff_factor \in 1..MaxFactor
    /\ max_delay \in 1..MaxMaxDelay
    /\ failure_threshold = 5
    /\ recovery_timeout = 60
    /\ now = 0
    /\ BreakerFresh /\ CallerIdle /\ WrapperIdle /\ ThreadsIdle /\ PolicyIdle /\ SchedulerFresh /\ LedgerFresh

NextRetry == RetryCall \/ RetryAttempt \/ RetrySleep \/ Cancel

SpecRetry == InitRetry /\ [][NextRetry]_vars

InitBreaker ==
    /\ failure_threshold \in 1..MaxThreshold
    /\ recovery_timeout \in 0..MaxRecovery
    /\ max_retries \in {0, 1}
    /\ initial_delay = 1
    /\ backoff_factor = 2
    /\ max_delay = 60
    /\ now = 0
    /\ BreakerFresh /\ CallerIdle /\ WrapperIdle /\ ThreadsIdle /\ PolicyIdle /\ SchedulerFresh /\ LedgerFresh

NextBreaker == BreakerCall \/ RetryAttempt \/ RetrySleep \/ BreakerReturn \/ BreakerRaise \/ Tick

SpecBreaker == InitBreaker /\ [][NextBreaker]_vars

\* The breaker directly around the operation. The clock goes on between calls
\* and an invocation of func comes to an end; whether calls arrive is the caller's
\* choice.
InitRecovery ==
    /\ failure_threshold \in 1..MaxThreshold
    /\ recovery_timeout \in 0..MaxRecovery
    /\ max_retries = 0
    /\ initial_delay = 1
    /\ backoff_factor = 2
    /\ max_delay = 60
    /\ now = 0
    /\ BreakerFresh /\ CallerIdle /\ WrapperIdle /\ ThreadsIdle /\ PolicyIdle /\ SchedulerFresh /\ LedgerFresh

NextRecovery == CallArrives \/ FuncEnds \/ Tick

SpecRecovery ==
    InitRecovery /\ [][NextRecovery]_vars /\ WF_vars(Tick) /\ WF_vars(FuncEnds)

InitThreads ==
    /\ failure_threshold \in 1..MaxThreshold
    /\ recovery_timeout \in 0..MaxRecovery
    /\ max_retries = 3
    /\ initial_delay = 1
    /\ backoff_factor = 2
    /\ max_delay = 60
    /\ now = 0
    /\ BreakerFresh /\ CallerIdle /\ WrapperIdle /\ ThreadsIdle /\ PolicyIdle /\ SchedulerFresh /\ LedgerFresh

NextThreads ==
    \/ \E t \in Threads :
        ThreadCall(t) \/ ThreadReturn(t) \/ ThreadLoad(t) \/ ThreadStore(t) \/ ThreadStamp(t)
    \/ ThreadTick

SpecThreads == InitThreads /\ [][NextThreads]_vars

InitFilter ==
    /\ DefaultParams
    /\ now = 0
    /\ BreakerFresh /\ CallerIdle /\ WrapperIdle /\ ThreadsIdle /\ PolicyIdle /\ SchedulerFresh /\ LedgerFresh

NextFilter ==
    AddException \/ RemoveException \/ CleanupExpired \/ FilterScan \/ DropResults \/ DayTick

SpecFilter == InitFilter /\ [][NextFilter]_vars

\* the store without filter calls
NextLedger == AddException \/ RemoveException \/ CleanupExpired \/ DayTick

SpecLedger == InitFilter /\ [][NextLedger]_vars

\* A store constructed while the file was missing, and the file there is now: a
\* store constructed next reads it.
InitFaults ==
    /\ DefaultParams
    /\ now = 0
    /\ BreakerFresh /\ CallerIdle /\ WrapperIdle /\ ThreadsIdle /\ PolicyIdle /\ SchedulerFresh
    /\ exceptions = _load_exceptions(None)
    /\ exception_file \in StartFiles
    /\ scan_results = None
    /\ filter_image = NoImage
    /\ filtered_results = None
    /\ last_op = [op |-> "none", raised |-> NoError]
    /\ ProcsIdle

\* Processes about to construct their stores over one file, which is missing or
\* holds a ledger of at most one record, written in whole.
InitShared ==
    /\ DefaultParams
    /\ now = 0
    /\ BreakerFresh /\ CallerIdle /\ WrapperIdle /\ ThreadsIdle /\ PolicyIdle /\ SchedulerFresh
    /\ exceptions = _load_exceptions(None)
    /\ exception_file \in {None} \cup {<<YamlDump(ledger)>> : ledger \in StartLedgers}
    /\ scan_results = None
    /\ filter_image = NoImage
    /\ filtered_results = None
    /\ last_op = [op |-> "none", raised |-> NoError]
    /\ p_pc = [p \in Procs |-> "none"]
    /\ p_exceptions = [p \in Procs |-> None]
    /\ p_loaded = [p \in Procs |-> None]
    /\ committed = {_load_exceptions(exception_file)}
    /\ last_closed = None

NextShared == \E p \in Procs : ProcConstruct(p) \/ ProcAdd(p) \/ ProcClose(p)

SpecShared == InitShared /\ [][NextShared]_vars

\* the store over a file that was written from outside
NextFaults ==
    \/ AddException \/ RemoveException \/ CleanupExpired \/ GetActive
    \/ StoreLoad \/ DayTick

SpecFaults == InitFaults /\ [][NextFaults]_vars

\* threshold_checker.py:53-59: the two files main is given
InitPolicy ==
    /\ DefaultParams
    /\ now = 0
    /\ BreakerFresh /\ CallerIdle /\ WrapperIdle /\ ThreadsIdle /\ LedgerFresh
    /\ SchedulerFresh
    /\ thresholds \in Policies
    /\ scan_summary \in Summaries
    /\ check_results = None
    /\ exit_code = None

NextPolicy == Main

\* A store over a ledger of at most one record, written on day 0, some days
\* later; a policy; a scan is filtered and the filtered result goes to main.
InitGate ==
    /\ DefaultParams
    /\ now \in 0..MaxDay
    /\ BreakerFresh /\ CallerIdle /\ WrapperIdle /\ ThreadsIdle /\ ProcsIdle
    /\ SchedulerFresh
    /\ exceptions \in StartLedgers
    /\ exception_file = IF exceptions = FreshLedger THEN None ELSE <<YamlDump(exceptions)>>
    /\ scan_results = None
    /\ filter_image = NoImage
    /\ filtered_results = None
    /\ last_op = [op |-> "none", raised |-> NoError]
    /\ thresholds \in GatePolicies
    /\ scan_summary = <<>>
    /\ check_results = None
    /\ exit_code = None

NextGate == FilterScan \/ HandOver \/ MainOnFiltered

SpecGate == InitGate /\ [][NextGate]_vars

\* rescan_scheduler.py:15-21: a scheduler just constructed
InitScheduler ==
    /\ DefaultParams
    /\ now = 0
    /\ BreakerFresh /\ CallerIdle /\ WrapperIdle /\ ThreadsIdle /\ PolicyIdle /\ LedgerFresh
    /\ SchedulerFresh

NextScheduler ==
    \/ Start \/ Stop \/ JoinEnds
    \/ \E t \in Loops : LoopTest(t) \/ LoopWake(t)

SpecScheduler == InitScheduler /\ [][NextScheduler]_vars

SpecPolicy == InitPolicy /\ [][NextPolicy]_vars

----------------------------------------------------------------------------
(* Properties *)

\* totalVulnerabilities == sum(severitySummary.values()) == len(findings)
Consistent(results) ==
    /\ results.total_vulnerabilities = SumValues(results.severity_summary)
    /\ results.total_vulnerabilities = Len(results.cve_list)

\* C1 (SpecFilter): the result filter_scan_results returns satisfies
\* total_vulnerabilities = sum of the severity_summary counts = number of remaining
\* findings, whatever the severities of the remaining findings. Stated for the scan
\* results that satisfy it on input, so that a violation is the filter's own.
C1_FilterKeepsTotals ==
    (filtered_results # None /\ Consistent(scan_results[1]))
        => Consistent(filtered_results[1])

\* a step that ends a call in which func was entered
CallEnds == b_pc = "in_func" /\ b_pc' = "idle"
\* a step that starts a call
CallStarts == b_calls' = b_calls + 1
\* seconds since the last recorded failure
Elapsed == now - last_failure_time[1]

\* C2 (SpecBreaker): a call that succeeds while the breaker is closed leaves
\* failure_count at 0.
C2_SuccessResetsCount ==
    [][(CallEnds /\ b_result' = "returned" /\ state = "closed") => failure_count' = 0]_vars

\* C3 (SpecBreaker): a call that fails while the breaker is closed adds exactly one
\* to failure_count, sets last_failure_time to the time of the failure, and opens
\* the breaker exactly when the count has reached failure_threshold; otherwise the
\* breaker stays closed.
C3_ClosedFailureCounts ==
    [][(CallEnds /\ b_result' = "raised" /\ state = "closed") =>
            /\ failure_count' = failure_count + 1
            /\ last_failure_time' = <<now>>
            /\ state' = (IF failure_count' = failure_threshold THEN "open" ELSE "closed")]_vars

\* the breaker has just been opened by the failure that reached a threshold of 2 or
\* more, some time after the start
C3_Tripped ==
    /\ state = "open" /\ b_pc = "idle" /\ b_result = "raised"
    /\ failure_threshold >= 2
    /\ failure_count = failure_threshold
    /\ now > 0 /\ last_failure_time = <<now>>

\* C4 (SpecBreaker): a call made while the breaker is open and at most
\* recovery_timeout has passed since last_failure_time is rejected: func is not
\* entered, the operation is not invoked, and state, failure_count and
\* last_failure_time stay as they are.
C4_OpenRejects ==
    [][(CallStarts /\ state = "open" /\ Elapsed <= recovery_timeout) =>
            /\ b_result' = "rejected"
            /\ b_pc' = "idle" /\ r_pc' = "idle"
            /\ outcomes' = outcomes
            /\ UNCHANGED <<state, failure_count, last_failure_time>>]_vars

\* a second call in a row has been rejected by the open breaker, after some time
C4_RejectedAgain ==
    /\ state = "open" /\ b_result = "rejected" /\ b_pc = "idle"
    /\ b_calls >= failure_threshold + 2
    /\ Elapsed > 0 /\ Elapsed <= recovery_timeout

\* C5 (SpecBreaker): a call made while the breaker is open goes on as a probe
\* (state half-open, func entered) when more than recovery_timeout has passed since
\* last_failure_time, and is rejected otherwise, also at exactly recovery_timeout.
C5_ProbeAfterTimeout ==
    [][(CallStarts /\ state = "open") =>
            IF Elapsed > recovery_timeout
            THEN state' = "half-open" /\ b_pc' = "in_func" /\ r_pc' = "attempt"
            ELSE state' = "open" /\ b_pc' = "idle" /\ b_result' = "rejected"]_vars

\* the probe is running the operation, recovery_timeout + 1 seconds after the failure
C5_Probing ==
    /\ state = "half-open" /\ b_pc = "in_func"
    /\ recovery_timeout >= 1
    /\ Len(outcomes) = 1
    /\ now = last_failure_time[1] + recovery_timeout + 1

\* C6 (SpecBreaker): a probe that succeeds leaves the breaker closed with
\* failure_count 0; a probe that fails leaves it open with last_failure_time the
\* time of that failure; and the breaker goes from open to half-open only when more
\* than recovery_timeout has passed since last_failure_time.
C6_ProbeDecides ==
    [][/\ (CallEnds /\ state = "half-open") =>
            IF b_result' = "returned"
            THEN state' = "closed" /\ failure_count' = 0
            ELSE /\ state' = "open"
                 /\ last_failure_time' = <<now>>
                 /\ failure_count' = failure_count + 1
       /\ (state = "open" /\ state' = "half-open") => Elapsed > recovery_timeout]_vars

\* a successful probe has closed the breaker again (only a probe resets the count)
C6_Recovered ==
    /\ state = "closed" /\ b_pc = "idle" /\ b_result = "returned"
    /\ failure_count = 0
    /\ last_failure_time # None
    /\ b_calls >= failure_threshold + 2

\* C7 (SpecThreads): at most one thread at a time runs the operation as a probe,
\* that is, having entered func with the breaker half-open.
C7_OneProbe ==
    Cardinality({t \in Threads : t_pc[t] = "in_func" /\ t_probe[t]}) <= 1

\* every invocation so far has failed
AllFailed == \A i \in 1..Len(outcomes) : ~outcomes[i]

\* C8 (SpecRetry): when every attempt fails, func is invoked max_retries + 1 times
\* and no more, and the wrapper then raises the exception object of the last
\* invocation.
C8_RetryExhaustion ==
    AllFailed =>
        /\ Len(outcomes) <= max_retries + 1
        /\ r_pc \in {"returned", "raised"} =>
            /\ r_pc = "raised"
            /\ Len(outcomes) = max_retries + 1
            /\ r_raised = Exc(Len(outcomes))
        /\ r_pc \in {"idle", "attempt", "sleep"} => r_raised = 0

\* a wrapper with the largest max_retries tried has given up
C8_Exhausted ==
    /\ r_pc = "raised"
    /\ max_retries = MaxRetries
    /\ Len(outcomes) = MaxRetries + 1
    /\ AllFailed

\* the delay of the k-th sleep (k = 0, 1, ...) as the claim gives it
RECURSIVE DelayOfSleep(_)
DelayOfSleep(k) ==
    IF k = 0 THEN initial_delay
    ELSE Min(DelayOfSleep(k - 1) * backoff_factor, max_delay)

\* C9 (SpecRetry): the k-th sleep lasts initial_delay grown k times by
\* min(delay * backoff_factor, max_delay); there is one sleep between a failed
\* attempt and the next attempt and no other, so a wrapper that gives up has slept
\* max_retries times.
C9_BackoffSchedule ==
    /\ \A k \in 1..Len(sleeps) : sleeps[k] = DelayOfSleep(k - 1)
    /\ r_pc = "attempt" => Len(sleeps) = Len(outcomes)
    /\ r_pc \in {"sleep", "returned", "raised"} => Len(sleeps) = Len(outcomes) - 1
    /\ r_pc = "raised" => Len(sleeps) = max_retries

\* a wrapper has given up after three sleeps that grew and then hit max_delay
C9_Capped ==
    /\ r_pc = "raised"
    /\ Len(sleeps) = 3
    /\ sleeps[1] < sleeps[2]
    /\ sleeps[2] * backoff_factor > max_delay
    /\ sleeps[3] = max_delay

\* C10 (SpecBreaker): a call the open breaker rejects is over at once: the
\* operation is not invoked, nothing sleeps, no time passes and the retry wrapper
\* is not entered.
C10_RejectionNotRetried ==
    [][(CallStarts /\ b_result' = "rejected") =>
            /\ b_pc' = "idle" /\ r_pc' = "idle"
            /\ UNCHANGED <<outcomes, sleeps, attempt, delay, now>>]_vars

\* a breaker whose operation is retried once has rejected a call, the operation
\* having run twice in the call before
C10_RejectedWithRetries ==
    /\ b_result = "rejected" /\ b_pc = "idle"
    /\ max_retries = 1
    /\ Len(outcomes) = 2 /\ Len(sleeps) = 1


\* C11 (SpecRetry): once the cancellation signal is set, the wrapper starts no
\* further sleep and no further attempt.
C11_CancelStops ==
    [][cancel_requested => (sleeps' = sleeps /\ outcomes' = outcomes)]_vars

\* the records of a ledger's collection for an image (none when the image has no
\* collection), and the records of a list as a set
ScopedTo(ledger, image) ==
    IF image \in DOMAIN Get(ledger, "image_specific")
    THEN ledger.image_specific[image] ELSE <<>>

Records(list) == {list[i] : i \in 1..Len(list)}
\* the times asked about: every day of the clock and of the latest expiry
AsOfTimes == 0..(MaxDay + 2)

\* C12 (SpecLedger): for every image and every time asOf, the active set is
\* exactly the cve ids of the global records that expire after asOf, together
\* with, when an image is given, those of the records scoped to that same image
\* that expire after asOf. A record that expires at asOf, and a record of
\* another image, contribute nothing.
C12_ActiveExactly ==
    \A image \in Images \cup {NoImage}, asOf \in AsOfTimes :
        LET own == IF image = NoImage THEN {} ELSE Records(ScopedTo(exceptions, image))
            counted == {e \in Records(exceptions.global) \cup own :
                            FromIsoFormat(e.expiry_date) > asOf}
        IN  get_active_exceptions(exceptions, image, asOf) = {e.cve_id : e \in counted}

\* the ledger holds a global record that expires now, which is not active, and a
\* record of app:2 that is active for app:2 and for no other image
C12_ExpiringAndScoped ==
    /\ \E e \in Records(exceptions.global) :
            /\ FromIsoFormat(e.expiry_date) = now
            /\ e.cve_id \notin get_active_exceptions(exceptions, NoImage, now)
    /\ \E e \in Records(ScopedTo(exceptions, "app:2")) :
            /\ e.cve_id \in get_active_exceptions(exceptions, "app:2", now)
            /\ e.cve_id \notin get_active_exceptions(exceptions, "app:1", now)
            /\ e.cve_id \notin get_active_exceptions(exceptions, NoImage, now)

\* C13 (SpecLedger): across a step that adds nothing (a removal, a cleanup, a
\* day passing) the active set of an image at a later time is within its active
\* set before the step at any earlier time: nothing inactive becomes active.
C13_ActiveOnlyShrinks ==
    [][last_op'.op # "add" =>
        \A image \in Images \cup {NoImage}, t1 \in AsOfTimes, t2 \in AsOfTimes :
            t1 <= t2 => get_active_exceptions(exceptions', image, t2)
                            \subseteq get_active_exceptions(exceptions, image, t1)]_vars

\* a day has passed over a ledger of two records: one has just expired and is no
\* longer active, the other is still active
C13_OneLapsed ==
    /\ last_op.op = "none" /\ now > 0
    /\ \E e \in Records(exceptions.global) :
            /\ FromIsoFormat(e.expiry_date) = now
            /\ e.cve_id \notin get_active_exceptions(exceptions, NoImage, now)
            /\ e.cve_id \in get_active_exceptions(exceptions, NoImage, now - 1)
    /\ get_active_exceptions(exceptions, NoImage, now) # {}

\* C14 (SpecLedger): a cleanup at time now leaves, in the global list and in the
\* list of every image, the records that do not have expiry <= now, in their
\* order, and drops the others; the images keep their lists. A second cleanup at
\* once changes nothing.
C14_CleanupExact ==
    [][last_op'.op = "cleanup" =>
        LET Unexpired(e) == ~(FromIsoFormat(e.expiry_date) <= now) IN
        /\ exceptions'.global = SelectSeq(exceptions.global, Unexpired)
        /\ DOMAIN exceptions'.image_specific = DOMAIN exceptions.image_specific
        /\ \A image \in DOMAIN exceptions.image_specific :
                exceptions'.image_specific[image]
                    = SelectSeq(exceptions.image_specific[image], Unexpired)
        /\ cleanup_expired_exceptions(exceptions', now') = exceptions']_vars

\* a cleanup has removed one record and kept the other, which is in the list of
\* an image
C14_SweptOne ==
    /\ last_op.op = "cleanup"
    /\ \E image \in DOMAIN exceptions.image_specific :
            /\ Len(exceptions.image_specific[image]) = 1
            /\ exceptions.global = <<>>
            /\ last_op.removed = 1
            /\ FromIsoFormat(exceptions.image_specific[image][1].added_date) = 0

\* C15 (SpecLedger): an add puts one new record, of the cve id and reason given
\* and expiring expiry_days after now, at the end of the global list when no
\* image is given and at the end of that image's list otherwise; every record
\* there was stays where it was, whether or not the cve id was already there.
C15_AddAppendsOne ==
    [][last_op'.op = "add" =>
        LET image == last_op'.image
            before == IF image = NoImage THEN exceptions.global
                      ELSE ScopedTo(exceptions, image)
            after == IF image = NoImage THEN exceptions'.global
                     ELSE ScopedTo(exceptions', image)
        IN  /\ Len(after) = Len(before) + 1
            /\ SubSeq(after, 1, Len(before)) = before
            /\ after[Len(after)].cve_id = last_op'.cve_id
            /\ after[Len(after)].reason = last_op'.reason
            /\ after[Len(after)].expiry_date = IsoFormat(now + last_op'.expiry_days)
            /\ image # NoImage => exceptions'.global = exceptions.global
            /\ DOMAIN exceptions'.image_specific
                    = DOMAIN exceptions.image_specific \cup ({image} \ {NoImage})
            /\ \A im \in DOMAIN exceptions.image_specific \ {image} :
                    exceptions'.image_specific[im] = exceptions.image_specific[im]]_vars

\* the cve id just added for an image was already in that image's list: the list
\* holds two records of it, which expire on different days
C15_AddedTwice ==
    /\ last_op.op = "add" /\ last_op.image # NoImage
    /\ LET list == ScopedTo(exceptions, last_op.image) IN
        /\ Len(list) = 2
        /\ list[1].cve_id = last_op.cve_id /\ list[2].cve_id = last_op.cve_id
        /\ list[1].expiry_date # list[2].expiry_date

\* the records of every list of a ledger
AllRecords(ledger) ==
    Records(Get(ledger, "global"))
    \cup UNION {Records(ledger.image_specific[im]) : im \in DOMAIN Get(ledger, "image_specific")}

\* C16 (SpecLedger): a removal by hash leaves, in the global list and in the list
\* of every image, the records of another hash in their order, and no record of
\* that hash; when no record has the hash the ledger is as it was, and the
\* removal completes all the same.
C16_RemoveByHash ==
    [][last_op'.op = "remove" =>
        LET Differs(e) == e.hash # last_op'.hash IN
        /\ exceptions'.global = SelectSeq(exceptions.global, Differs)
        /\ DOMAIN exceptions'.image_specific = DOMAIN exceptions.image_specific
        /\ \A image \in DOMAIN exceptions.image_specific :
                exceptions'.image_specific[image]
                    = SelectSeq(exceptions.image_specific[image], Differs)
        /\ \A e \in AllRecords(exceptions') : e.hash # last_op'.hash
        /\ (\A e \in AllRecords(exceptions) : e.hash # last_op'.hash)
                => exceptions' = exceptions]_vars

\* a removal has deleted one record, the list of an image is empty after it and
\* the global list keeps a record of another hash
C16_RemovedOne ==
    /\ last_op.op = "remove"
    /\ last_op.removed = 1
    /\ \E image \in DOMAIN exceptions.image_specific :
            exceptions.image_specific[image] = <<>>
    /\ Len(exceptions.global) = 1
    /\ exceptions.global[1].hash # last_op.hash

\* C17 (SpecLedger): when an add, a removal or a cleanup has completed, the file
\* exists and the ledger read back from it is the ledger in memory.
C17_FileIsLedger ==
    last_op.op \in {"add", "remove", "cleanup"} =>
        /\ exception_file # None
        /\ YamlLoad(exception_file[1]) = exceptions

\* a removal has deleted one of two records, and the file holds the one left
C17_SavedAfterRemoval ==
    /\ last_op.op = "remove" /\ last_op.removed = 1
    /\ exception_file # None
    /\ LedgerSize(YamlLoad(exception_file[1])) = 1

\* the active set the filter held in filtered_results was computed with
FilterActive == get_active_exceptions(exceptions, filter_image, now)

\* C18 (SpecFilter): the result of the filter holds the excepted findings, which
\* are the input findings whose id is in the active set, in input order, and the
\* remaining findings, which are the others, in input order; excepted_count is
\* the number of excepted findings.
C18_FilterPartitions ==
    filtered_results # None =>
        LET result == filtered_results[1]
            input == scan_results[1].cve_list
            InActive(cve) == cve.id \in FilterActive
            NotInActive(cve) == cve.id \notin FilterActive
        IN  /\ {"excepted_cves", "excepted_count"} \subseteq DOMAIN result
            /\ result.excepted_cves = SelectSeq(input, InActive)
            /\ result.cve_list = SelectSeq(input, NotInActive)
            /\ result.excepted_count = Len(result.excepted_cves)

\* C19 (SpecFilter): when no exception is active for the image, the result has
\* the findings, the summary and the total of the input, an empty list of excepted
\* findings and excepted_count = 0.
C19_NothingActive ==
    (filtered_results # None /\ FilterActive = {}) =>
        LET result == filtered_results[1]
            input == scan_results[1]
        IN  /\ result.cve_list = input.cve_list
            /\ result.severity_summary = input.severity_summary
            /\ result.total_vulnerabilities = input.total_vulnerabilities
            /\ {"excepted_cves", "excepted_count"} \subseteq DOMAIN result
            /\ result.excepted_cves = <<>>
            /\ result.excepted_count = 0

\* C20 (SpecFilter): in the summary the filter rebuilds, UNKNOWN counts the
\* remaining findings whose severity is none of CRITICAL, HIGH, MEDIUM and LOW,
\* a missing severity among them, and every remaining finding is counted.
C20_UnknownBucket ==
    (filtered_results # None /\ FilterActive # {}) =>
        LET result == filtered_results[1]
            Unranked(cve) == cve.severity \notin {"CRITICAL", "HIGH", "MEDIUM", "LOW"}
        IN  /\ result.severity_summary["UNKNOWN"] = Count(result.cve_list, Unranked)
            /\ SumValues(result.severity_summary) = Len(result.cve_list)

WellFormed(list) == {e \in Records(list) : IsIsoFormat(e.expiry_date)}

\* C22 (SpecFaults): with a record of malformed expiry in the ledger, constructing
\* the store, asking for the active set, filtering and cleaning up raise no
\* ValueError; the active set is the one of the well-formed records, the
\* malformed record counting as expired; a cleanup leaves no malformed record
\* and keeps the well-formed records that have not expired.
C22_MalformedIsExpired ==
    [][last_op'.op \in {"load", "active", "filter", "cleanup"} =>
        /\ last_op'.raised # "ValueError"
        /\ last_op'.op = "active" =>
                LET image == last_op'.image
                    own == IF image = NoImage THEN {}
                           ELSE WellFormed(ScopedTo(exceptions, image))
                    counted == {e \in WellFormed(Get(exceptions, "global")) \cup own :
                                    FromIsoFormat(e.expiry_date) > now}
                IN  last_op'.result = {e.cve_id : e \in counted}
        /\ last_op'.op = "cleanup" =>
                /\ \A e \in AllRecords(exceptions') : IsIsoFormat(e.expiry_date)
                /\ \A e \in AllRecords(exceptions) :
                        (IsIsoFormat(e.expiry_date) /\ FromIsoFormat(e.expiry_date) > now)
                            => e \in AllRecords(exceptions')]_vars

\* the file is missing, empty, or not readable as YAML
Unusable(file) ==
    \/ file = None
    \/ file[1] = EmptyText
    \/ YamlLoad(file[1]) = YAMLError

\* C23 (SpecFaults): a store constructed over a missing, empty or unreadable file
\* is constructed without error and has the fresh empty ledger, both collections
\* there and empty; no operation of a store then fails for want of a collection.
C23_UnusableFileGivesFresh ==
    [][/\ (last_op'.op = "load" /\ Unusable(exception_file)) =>
            /\ last_op'.raised = NoError
            /\ exceptions' = FreshLedger
       /\ last_op'.op \in {"add", "remove", "cleanup", "active", "filter"} =>
            last_op'.raised # "KeyError"]_vars

\* C24 (SpecShared): a process that constructs its store while another is inside
\* save_exceptions reads a ledger that was written to the file in whole, or the
\* ledger being written, and its constructor does not fail.
C24_ReaderSeesWholeLedger ==
    [][\A p \in Procs :
        (/\ p_pc[p] = "none" /\ p_pc'[p] # "none"
         /\ \E q \in Procs \ {p} : p_pc[q] = "saving") =>
            /\ p_pc'[p] = "ready"
            /\ p_exceptions'[p] \in
                    committed \cup {p_exceptions[q] : q \in {r \in Procs : p_pc[r] = "saving"}}]_vars

\* C25 (SpecShared): when the processes have loaded the same ledger and each has
\* completed its add, the file holds the ledger of the process that closed the
\* file last, and no record only the other process added.
C25_LastWriterWins ==
    ((\A p \in Procs : p_pc[p] = "done") /\ (\A p, q \in Procs : p_loaded[p] = p_loaded[q])) =>
        LET last == last_closed[1]
            on_disk == YamlLoad(exception_file[1])
        IN  /\ on_disk = p_exceptions[last]
            /\ \A other \in Procs \ {last} :
                    \A e \in AllRecords(p_exceptions[other]) \ AllRecords(p_loaded[other]) :
                        e \in AllRecords(p_exceptions[last]) \/ e \notin AllRecords(on_disk)

\* the limit the policy gives the severity of a summary item
Limit(item) ==
    LET threshold == thresholds[Lower(item.severity)]
    IN  IF "max_allowed" \in DOMAIN threshold THEN threshold.max_allowed ELSE DefaultMaxAllowed

\* the policy configures the lowercased severity name of the item
Configured(item) == Lower(item.severity) \in DOMAIN thresholds

\* the item's severity is configured and its count is above the limit
OverLimit(item) == Configured(item) /\ item.count > Limit(item)

\* C26 (SpecPolicy): the violations check records are the summary's items whose
\* lowercased severity name is configured with a limit strictly below the
\* count, in the order of the summary; passed is true exactly when there is none.
C26_ViolationsAreItemsOverLimit ==
    check_results # None =>
        LET verdict == check_results[1]
            expected == SelectSeq(scan_summary, OverLimit)
        IN  /\ Len(verdict.violations) = Len(expected)
            /\ \A i \in 1..Len(expected) :
                    /\ verdict.violations[i].severity = expected[i].severity
                    /\ verdict.violations[i].count = expected[i].count
            /\ verdict.passed = (verdict.violations = <<>>)

\* A summary of three items: the first at its limit, the second not configured
\* with a count above zero, the third over its limit and the one violation.
C26_BoundaryUnconfiguredOver ==
    /\ check_results # None
    /\ Len(scan_summary) = 3
    /\ Configured(scan_summary[1]) /\ scan_summary[1].count = Limit(scan_summary[1])
    /\ ~Configured(scan_summary[2]) /\ scan_summary[2].count > 0
    /\ Len(check_results[1].violations) = 1
    /\ check_results[1].violations[1].severity = scan_summary[3].severity
    /\ ~check_results[1].passed

\* C27 (SpecPolicy): no violation is recorded for a severity whose count in the
\* summary is 0, whatever max_allowed the policy gives it.
C27_ZeroCountNeverViolates ==
    check_results # None =>
        \A i \in 1..Len(scan_summary) :
            scan_summary[i].count = 0 =>
                \A v \in 1..Len(check_results[1].violations) :
                    check_results[1].violations[v].severity # scan_summary[i].severity

\* precedence of the actions: block over warn over log
Outranks(a, b) ==
    \/ a = b
    \/ a = "block"
    \/ a = "warn" /\ b = "log"

\* the highest-precedence action among the violations, "none" when there are none
EffectiveAction(violations) ==
    IF violations = <<>> THEN "none"
    ELSE CHOOSE a \in {violations[i].action : i \in 1..Len(violations)} :
            \A i \in 1..Len(violations) : Outranks(a, violations[i].action)

\* C28 (SpecPolicy): main exits non-zero exactly when some violation of the
\* verdict carries action block, that is, exactly when the highest-precedence
\* action among the violations (block > warn > log, none without violations) is
\* block; the position of the block violation and the warn or log violations
\* beside it make no difference.
C28_ExitFollowsEffectiveAction ==
    check_results # None =>
        LET violations == check_results[1].violations
        IN  /\ (exit_code[1] # 0) <=> (\E i \in 1..Len(violations) : violations[i].action = "block")
            /\ (exit_code[1] # 0) <=> (EffectiveAction(violations) = "block")
            /\ EffectiveAction(violations) \in {"warn", "log", "none"} => exit_code[1] = 0
            /\ (EffectiveAction(violations) = "none") <=> check_results[1].passed

\* Three violations, warn and log first and block last, and a non-zero exit.
C28_BlockLastAmongThree ==
    /\ check_results # None
    /\ Len(check_results[1].violations) = 3
    /\ check_results[1].violations[1].action = "warn"
    /\ check_results[1].violations[2].action = "log"
    /\ check_results[1].violations[3].action = "block"
    /\ exit_code[1] # 0

\* the invocations of func that returned, in the current wrapper call
Succeeded == {i \in 1..Len(outcomes) : outcomes[i]}

\* C29 (SpecRetry): once an invocation of func has returned, say the i-th, with
\* every earlier one failed, i is at most max_retries + 1, func has been
\* invoked exactly i times, there have been exactly i - 1 sleeps, the wrapper
\* has returned the result of invocation i, and it has raised nothing.
C29_StopsAtFirstSuccess ==
    Succeeded # {} =>
        LET i == CHOOSE k \in Succeeded : \A j \in Succeeded : k <= j
        IN  /\ i <= max_retries + 1
            /\ Len(outcomes) = i
            /\ Len(sleeps) = i - 1
            /\ r_pc = "returned"
            /\ r_returned = Result(i)
            /\ r_raised = 0

\* Two failures, then the third invocation returns with retries still left.
C29_ThirdAttemptSucceeds ==
    /\ Len(outcomes) = 3
    /\ ~outcomes[1] /\ ~outcomes[2] /\ outcomes[3]
    /\ max_retries > 2
    /\ r_pc = "returned"
    /\ Len(sleeps) = 2

\* C30 (SpecBreaker): whenever the single caller is between two calls, the
\* breaker, whose failure_threshold is at least 1, is closed or open and never
\* half-open, and it is open exactly when failure_count >= failure_threshold.
C30_OpenIffCountAtThreshold ==
    (b_pc = "idle" /\ failure_threshold >= 1) =>
        /\ state \in {"closed", "open"}
        /\ (state = "open") <=> (failure_count >= failure_threshold)

\* Between calls after a probe that failed: open again with the count above the
\* threshold.
C30_OpenAfterFailedProbe ==
    /\ b_pc = "idle"
    /\ b_result = "raised"
    /\ state = "open"
    /\ failure_count > failure_threshold

\* C31 (SpecRetry): every argument of time.sleep is at most max_delay, whatever
\* the parameters, initial_delay above max_delay included.
C31_SleepsWithinMaxDelay ==
    \A k \in 1..Len(sleeps) : sleeps[k] <= max_delay

\* an invocation of func raises
OperationFails == b_pc = "in_func" /\ b_result' = "raised"

\* C32 (SpecRecovery): if calls keep arriving and from some point on no
\* invocation of the operation raises, then a breaker that is open is later
\* half-open (probed) and later closed, and from some point on it is closed for
\* good.
C32_OpenBreakerRecovers ==
    ([]<><<CallArrives>>_vars /\ <>[][~OperationFails]_vars) =>
        /\ (state = "open") ~> (state = "half-open")
        /\ (state = "open") ~> (state = "closed")
        /\ <>[](state = "closed")

\* A breaker that was opened by failures and has closed again after a probe, the
\* count cleared.
C32_ClosedAfterProbe ==
    /\ state = "closed"
    /\ b_result = "returned"
    /\ last_failure_time # None
    /\ failure_count = 0
    /\ now > last_failure_time[1] + recovery_timeout

\* C33 (SpecLedger): a cleanup changes nothing of what is excepted: for every
\* image and for no image, the active exceptions at the time of the cleanup are
\* the same set over the ledger before and over the ledger after, and every scan
\* result is filtered to the same result over either.
C33_CleanupKeepsActive ==
    [][last_op'.op = "cleanup" =>
        \A image \in Images \cup {NoImage} :
            /\ get_active_exceptions(exceptions', image, now)
                    = get_active_exceptions(exceptions, image, now)
            /\ \A raw \in RawScans :
                    filter_scan_results(exceptions', Enhance(raw), image, now)
                        = filter_scan_results(exceptions, Enhance(raw), image, now)]_vars

\* A cleanup has removed a record while a record of an image still excepts its
\* cve for that image and for no other.
C33_SweptBesideActive ==
    /\ last_op.op = "cleanup"
    /\ last_op.removed >= 1
    /\ \E image \in Images :
            /\ get_active_exceptions(exceptions, image, now) # {}
            /\ get_active_exceptions(exceptions, NoImage, now) = {}

\* the severities of the violations of a verdict
ViolatedSeverities(verdict) ==
    {verdict.violations[i].severity : i \in 1..Len(verdict.violations)}

Alive == {t \in Loops : l_pc[t] \in {"test", "sleep"}}

\* C35 (SpecScheduler): at most one loop thread that stop was not called on is
\* alive; a start while running spawns nothing; and a loop that stop was called
\* on never passes its loop test again, a later start included.
C35_StoppedLoopNeverResumes ==
    /\ [](Cardinality(Alive \ stopped) <= 1)
    /\ [][/\ (s_last'.op = "start" /\ s_last' # s_last /\ sch_running) =>
                (l_pc' = l_pc /\ sch_thread' = sch_thread)
          /\ \A t \in stopped : l_pc[t] = "test" => l_pc'[t] # "sleep"]_vars

====
